---- MODULE Spec2Model ----
(***************************************************************************)
(* Model of the Bitcoin peer address crawler (src/src/main.rs).            *)
(*                                                                         *)
(* main runs one session against the seed (collect_initial_addresses),     *)
(* seeds all_addresses and addresses_to_crawl from its result, then        *)
(* repeats rounds: drain addresses_to_crawl, spawn one task per address    *)
(* (crawl_address), join_all, merge.  Finally it prints up to              *)
(* address_limit members of all_addresses.                                 *)
(*                                                                         *)
(* The peers are the environment: every connect, every send and every      *)
(* frame read from a stream is a nondeterministic choice.                   *)
(***************************************************************************)
EXTENDS Integers, Sequences, FiniteSets, TLC

\* ---------------------------------------------------------------- bounds
\* address_limit is drawn from 0..MaxLimit
MaxLimit == 3
\* the attempts counters saturate here ("AttemptCap or more")
AttemptCap == 2
\* the count of merged rounds saturates here ("RoundCap or more")
RoundCap == 2

\* ------------------------------------------------------ program constants
\* address_limit that crawl_address hands to collect_initial_addresses
CrawlAddressLimit == 5000
\* user_agent that crawl_address hands to it: String::new()
CrawlUserAgent == ""
\* build_version_message: START_HEIGHT and SERVICES (ServiceFlags::NONE)
START_HEIGHT == 0
SERVICES == 0

\* ------------------------------------------------------------- addresses
\* std::net::SocketAddr values (the port is part of host)
V4Hosts == {"seed", "a", "b"}
SockV4(h) == [fam |-> "V4", host |-> h]
SockV6(h) == [fam |-> "V6", host |-> h]
\* the configured remote_address
remote_address == SockV4("seed")
\* the configured local_address
local_address == SockV4("local")
\* the configured user_agent (config.rs gives this default)
user_agent == "/Satoshi:25.0.0/"

\* Address::socket_addr(): IPv4-mapped -> V4, onioncat -> Err, else V6
socket_addr(e) ==
    CASE e.net = "ipv4" -> [ok |-> TRUE, addr |-> SockV4(e.host)]
      [] e.net = "ipv6" -> [ok |-> TRUE, addr |-> SockV6(e.host)]
      [] OTHER -> [ok |-> FALSE, addr |-> SockV6(e.host)]

is_ipv4_accept_all(address) == TRUE

\* utils::is_ipv4
is_ipv4(address) ==
    LET r == socket_addr(address) IN r.ok /\ r.addr.fam = "V4"

\* messaging::build_version_message (the timestamp and the nonce are left out:
\* they are fresh values no claim reads)
build_version_message(receiver_address, sender_address, agent) ==
    [services |-> SERVICES,
     receiver |-> [address |-> receiver_address, services |-> SERVICES],
     sender |-> [address |-> sender_address, services |-> SERVICES],
     user_agent |-> agent,
     start_height |-> START_HEIGHT]

\* ------------------------------------------------------------- sequences
Range(q) == {q[i] : i \in DOMAIN q}

\* every iteration order of a HashSet: the injective sequences over S
Orders(S) ==
    {q \in [1..Cardinality(S) -> S] : \A i, j \in DOMAIN q : q[i] = q[j] => i = j}

Take_everything(q, n) == q

\* Iterator::take(n)
Take(q, n) == [i \in 1..(IF n < Len(q) THEN n ELSE Len(q)) |-> q[i]]

\* the entries in the order a peer lists them
EntrySeq ==
    <<[net |-> "ipv4", host |-> "a"], [net |-> "ipv6", host |-> "a"],
      [net |-> "ipv4", host |-> "b"], [net |-> "onion", host |-> "b"],
      [net |-> "ipv4", host |-> "seed"]>>

RECURSIVE SubSeqs(_)
SubSeqs(q) ==
    IF q = <<>> THEN {<<>>}
    ELSE LET rest == SubSeqs(Tail(q))
         IN  rest \cup {<<Head(q)>> \o r : r \in rest}

\* Addr payloads: every selection of entries, of any length
AddrLists == SubSeqs(EntrySeq)

\* ---------------------------------------------------------------- frames
\* what stream.next() yields: Some(Ok(message)), Some(Err(_)) or None
Frames ==
    {[kind |-> k, addrs |-> <<>>] : k \in {"Version", "Verack", "DecodeError"}}
        \cup {[kind |-> "Addr", addrs |-> l] : l \in AddrLists}

VARIABLES
    address_limit,      \* args.address_limit
    main_pc,            \* where main is: "seed", "loop", "join", "exit_ok", "exit_err"
    all_addresses,      \* HashSet<SocketAddr> (Visited)
    addresses_to_crawl, \* VecDeque<SocketAddr> (Frontier)
    sessions,           \* the sessions in flight: the seed's, or the tasks of a round
    printed,            \* the lines written to standard output
    reordered,          \* a session returned before one spawned ahead of it
    attempts,           \* per address: sessions started against it (saturating)
    last_round          \* what the last merged round saw

vars ==
    <<address_limit, main_pc, all_addresses, addresses_to_crawl, sessions,
      printed, reordered, attempts, last_round>>

\* -------------------------------------------------------------- sessions
\* A session about to start at `pc` ("connect" for the seed, "crawl_address"
\* for a task) with the address_limit and the user_agent its Args carry.
NewSession(address, pc, limit, agent) ==
    [addr |-> address, pc |-> pc, address_limit |-> limit, user_agent |-> agent,
     wire |-> <<>>,
     verack_sent |-> FALSE, getaddr_sent |-> FALSE, peer_addresses |-> {},
     outcome |-> "Running", result |-> {}, error |-> "none"]

\* The session's future completed: its locals and connections are dropped,
\* what is left is the Result it returned.
Return(s, outcome, result) ==
    [s EXCEPT !.pc = "returned", !.wire = <<>>,
              !.verack_sent = FALSE, !.getaddr_sent = FALSE,
              !.peer_addresses = {},
              !.outcome = outcome, !.result = result]

Fail_keeps_collected(s, message) ==
    [Return(s, "Err", s.peer_addresses) EXCEPT !.error = message]

\* `?` on an Err(anyhow!(message)): the function returns it
Fail(s, message) == [Return(s, "Err", {}) EXCEPT !.error = message]

ConnectOutcomes == {"accepted", "refused", "timed_out"}

connect_retry(s, next_pc, o) ==
    IF o = "accepted"
        THEN [s EXCEPT !.pc = next_pc, !.wire = Append(@, "connect")]
        ELSE s

\* connect(): one TcpStream::connect under one timeout; Ok(framed) when it is
\* accepted in time, Err when it is refused or the timeout elapses
connect(s, next_pc, o) ==
    CASE o = "accepted" ->
             [s EXCEPT !.pc = next_pc, !.wire = Append(@, "connect")]
      [] o = "refused" -> Fail(s, "Connection failed")
      [] OTHER -> Fail(s, "Connection timed out")

\* `connect(..).await?` against whatever the peer and the network do
ConnectStep(s, next_pc) == {connect(s, next_pc, o) : o \in ConnectOutcomes}

\* stream.send(version_message) with `?`
SendVersionStep(s) ==
    {IF ok
        THEN [s EXCEPT !.pc = "receive", !.wire = Append(@, "Version")]
        ELSE Fail(s, "Failed to send version message") : ok \in BOOLEAN}

OnVersion_resend(s) ==
    LET s2 == [s EXCEPT !.wire = @ \o <<"Verack", "GetAddr">>,
                        !.verack_sent = TRUE, !.getaddr_sent = TRUE]
    IN  {s2, Fail(s, "Failed to send verack message")}

\* the Version arm: Verack then GetAddr, each at most once, each with `?`
OnVersion(s) ==
    LET sendVerack == ~s.verack_sent
        sendGetAddr == ~s.getaddr_sent
        s1 == [s EXCEPT !.wire = IF sendVerack THEN Append(@, "Verack") ELSE @,
                        !.verack_sent = TRUE]
        s2 == [s1 EXCEPT !.wire = IF sendGetAddr THEN Append(@, "GetAddr") ELSE @,
                         !.getaddr_sent = TRUE]
    IN  {s2}
          \cup (IF sendVerack
                    THEN {Fail(s, "Failed to send verack message")} ELSE {})
          \cup (IF sendGetAddr
                    THEN {Fail(s1, "Failed to send getaddr message")} ELSE {})

\* the for loop of the Addr arm: insert every IPv4 entry
RECURSIVE InsertAddresses(_, _)
InsertAddresses(set, addresses) ==
    IF addresses = <<>> THEN set
    ELSE LET address == Head(addresses)
             r == socket_addr(address)
             set1 == IF is_ipv4(address) /\ r.ok THEN set \cup {r.addr} ELSE set
         IN  InsertAddresses(set1, Tail(addresses))

OnAddr_no_break(s, addresses) ==
    [s EXCEPT !.peer_addresses = InsertAddresses(@, addresses)]

\* the Addr arm: collect, then break when the limit is reached
OnAddr(s, addresses) ==
    LET s1 == [s EXCEPT !.peer_addresses = InsertAddresses(@, addresses)]
    IN  IF Cardinality(s1.peer_addresses) >= s1.address_limit
            THEN Return(s1, "Ok", s1.peer_addresses)
            ELSE s1

OnDecodeError_abort(s) == Fail(s, "Decoding error")

\* the Err(err) arm: the error is logged, the loop goes on
OnDecodeError(s) == s

\* one iteration of `while let Some(result) = stream.next().await`
OnFrame(s, f) ==
    CASE f.kind = "Version" -> OnVersion(s)
      [] f.kind = "Addr" -> {OnAddr(s, f.addrs)}
      [] f.kind = "DecodeError" -> {OnDecodeError(s)}
      [] OTHER -> {s}

\* stream.next() yielded None: Ok(peer_addresses)
OnStreamEnd(s) == Return(s, "Ok", s.peer_addresses)

Running(s) == s.pc # "returned"

\* the version_message a session builds before it sends anything
version_message(s) == build_version_message(s.addr, local_address, s.user_agent)

\* the connections a session holds: one per connect() that returned Ok; both
\* `stream` bindings live until the function that made them returns
Connections(s) == Cardinality({k \in DOMAIN s.wire : s.wire[k] = "connect"})

\* the messages a session has sent, in order
Sent(s) == SelectSeq(s.wire, LAMBDA m : m # "connect")

AllReturned_any(ss) == \E i \in DOMAIN ss : ~Running(ss[i])

\* join_all(tasks).await resolves when every task has completed
AllReturned(ss) == \A i \in DOMAIN ss : ~Running(ss[i])

SessionUpdate(i, t) ==
    /\ sessions' = [sessions EXCEPT ![i] = t]
    /\ reordered' = (reordered \/ (~Running(t) /\ \E j \in 1..(i - 1) :
                                                   Running(sessions[j])))
    /\ UNCHANGED <<address_limit, main_pc, all_addresses, addresses_to_crawl,
                   printed, attempts, last_round>>

\* crawl_address: the connect of its own, before collect_initial_addresses
CrawlConnect(i) ==
    /\ sessions[i].pc = "crawl_address"
    /\ \E t \in ConnectStep(sessions[i], "connect") : SessionUpdate(i, t)

\* collect_initial_addresses: connect
Connect(i) ==
    /\ sessions[i].pc = "connect"
    /\ \E t \in ConnectStep(sessions[i], "send_version") : SessionUpdate(i, t)

\* collect_initial_addresses: send the Version message
SendVersion(i) ==
    /\ sessions[i].pc = "send_version"
    /\ \E t \in SendVersionStep(sessions[i]) : SessionUpdate(i, t)

\* collect_initial_addresses: the peer's next frame arrives
Receive(i) ==
    /\ sessions[i].pc = "receive"
    /\ \E t \in UNION {OnFrame(sessions[i], f) : f \in Frames} :
           SessionUpdate(i, t)

\* collect_initial_addresses: the stream ends
StreamEnd(i) ==
    /\ sessions[i].pc = "receive"
    /\ SessionUpdate(i, OnStreamEnd(sessions[i]))

\* a spawned task panics: its JoinHandle resolves to Err(JoinError)
TaskPanic(i) ==
    /\ main_pc = "join"
    /\ Running(sessions[i])
    /\ SessionUpdate(i, Return(sessions[i], "JoinError", {}))

\* ------------------------------------------------------------------ main
Extend_replace(set, items) == items

\* HashSet::extend
Extend(set, items) == set \cup items

Bump(n) == IF n < AttemptCap THEN n + 1 ELSE AttemptCap

\* the sessions of ss whose crawl_address returned Ok / did not
Succeeded(ss) == {i \in DOMAIN ss : ss[i].outcome = "Ok"}
Failed(ss) == {i \in DOMAIN ss : ss[i].outcome \in {"Err", "JoinError"}}

NoRound ==
    [n |-> 0, before |-> {}, batch |-> {}, failed |-> {}, returned |-> {},
     reordered |-> FALSE]

Init ==
    /\ address_limit \in 0..MaxLimit
    /\ main_pc = "seed"
    /\ all_addresses = {}
    /\ addresses_to_crawl = <<>>
    /\ sessions = <<NewSession(remote_address, "connect", address_limit,
                                  user_agent)>>
    /\ printed = <<>>
    /\ reordered = FALSE
    /\ attempts = [a \in {SockV4(h) : h \in V4Hosts} |->
                      IF a = remote_address THEN 1 ELSE 0]
    /\ last_round = NoRound

RunFails_on_any_error(pc, ss) == \E i \in DOMAIN ss : ss[i].outcome = "Err"

\* the only `?` on a session's Result: the seed session's, in main
RunFails(pc, ss) == pc = "seed" /\ ss[1].outcome = "Err"

\* the seed session failed: `?` makes main return the error
SeedFailed ==
    /\ main_pc \in {"seed", "join"}
    /\ AllReturned(sessions)
    /\ RunFails(main_pc, sessions)
    /\ main_pc' = "exit_err"
    /\ sessions' = <<>>
    /\ reordered' = FALSE
    /\ UNCHANGED <<address_limit, all_addresses, addresses_to_crawl, printed,
                   attempts, last_round>>

\* the seed session returned Ok: seed all_addresses and addresses_to_crawl
SeedReturned ==
    /\ main_pc = "seed"
    /\ AllReturned(sessions)
    /\ ~RunFails(main_pc, sessions)
    /\ all_addresses' = Extend(all_addresses, sessions[1].result)
    /\ \E q \in Orders(sessions[1].result) :
           addresses_to_crawl' = addresses_to_crawl \o q
    /\ main_pc' = "loop"
    /\ sessions' = <<>>
    /\ reordered' = FALSE
    /\ UNCHANGED <<address_limit, printed, attempts, last_round>>

LoopCondition_ignore_limit ==
    addresses_to_crawl # <<>>

LoopCondition_ignore_empty ==
    Cardinality(all_addresses) < address_limit

\* while all_addresses.len() < args.address_limit && !addresses_to_crawl.is_empty()
LoopCondition ==
    /\ Cardinality(all_addresses) < address_limit
    /\ addresses_to_crawl # <<>>

\* drain the queue and spawn one task per address
StartRound ==
    /\ main_pc = "loop"
    /\ LoopCondition
    /\ sessions' = [i \in 1..Len(addresses_to_crawl) |->
                       NewSession(addresses_to_crawl[i], "crawl_address",
                                  CrawlAddressLimit, CrawlUserAgent)]
    /\ addresses_to_crawl' = <<>>
    /\ attempts' = [a \in DOMAIN attempts |->
                       IF a \in Range(addresses_to_crawl)
                           THEN Bump(attempts[a]) ELSE attempts[a]]
    /\ reordered' = FALSE
    /\ main_pc' = "join"
    /\ UNCHANGED <<address_limit, all_addresses, printed, last_round>>

\* what the spawned closure evaluates to: Err(_) becomes HashSet::new()
TaskOutput(s) == IF s.outcome = "Ok" THEN s.result ELSE {}

NewAddresses_last_only(ss) ==
    IF ss = <<>> THEN {} ELSE TaskOutput(ss[Len(ss)])

NewAddresses_all_or_nothing(ss) ==
    IF \E i \in DOMAIN ss : ss[i].outcome # "Ok"
        THEN {}
        ELSE UNION {TaskOutput(ss[i]) : i \in DOMAIN ss}

\* new_addresses: the union of the outputs of the tasks that did not panic
RECURSIVE NewAddresses(_)
NewAddresses(ss) ==
    IF ss = <<>> THEN {}
    ELSE LET task == Head(ss)
             rest == NewAddresses(Tail(ss))
         IN  IF task.outcome # "JoinError" THEN TaskOutput(task) \cup rest ELSE rest

NextFrontier_all_new(new_addresses, visited) == new_addresses

\* new_addresses.difference(&all_addresses): what is pushed to the queue
NextFrontier(new_addresses, visited) == new_addresses \ visited

\* join_all resolved: merge the round
JoinRound ==
    /\ main_pc = "join"
    /\ AllReturned(sessions)
    /\ LET new_addresses == NewAddresses(sessions)
       IN  /\ \E q \in Orders(NextFrontier(new_addresses, all_addresses)) :
                  addresses_to_crawl' = addresses_to_crawl \o q
           /\ all_addresses' = Extend(all_addresses, new_addresses)
    /\ last_round' =
           [n |-> IF last_round.n < RoundCap THEN last_round.n + 1 ELSE RoundCap,
            before |-> all_addresses,
            batch |-> {sessions[i].addr : i \in DOMAIN sessions},
            failed |-> {sessions[i].addr : i \in Failed(sessions)},
            returned |-> UNION {sessions[i].result : i \in Succeeded(sessions)},
            reordered |-> reordered]
    /\ sessions' = <<>>
    /\ reordered' = FALSE
    /\ main_pc' = "loop"
    /\ UNCHANGED <<address_limit, printed, attempts>>

\* for addr in all_addresses.iter().take(args.address_limit): println
PrintAddresses ==
    /\ main_pc = "loop"
    /\ ~LoopCondition
    /\ \E q \in Orders(all_addresses) : printed' = Take(q, address_limit)
    /\ main_pc' = "exit_ok"
    /\ UNCHANGED <<address_limit, all_addresses, addresses_to_crawl, sessions,
                   reordered, attempts, last_round>>

Next ==
    \/ \E i \in DOMAIN sessions : CrawlConnect(i)
    \/ \E i \in DOMAIN sessions : Connect(i)
    \/ \E i \in DOMAIN sessions : SendVersion(i)
    \/ \E i \in DOMAIN sessions : Receive(i)
    \/ \E i \in DOMAIN sessions : StreamEnd(i)
    \/ \E i \in DOMAIN sessions : TaskPanic(i)
    \/ SeedFailed
    \/ SeedReturned
    \/ StartRound
    \/ JoinRound
    \/ PrintAddresses

Spec == Init /\ [][Next]_vars

\* The runtime schedules main and every spawned task whenever it can make
\* progress, a connect or a send completes (the connect within its timeout),
\* and every peer eventually closes its stream.
MainStep == SeedFailed \/ SeedReturned \/ StartRound \/ JoinRound \/ PrintAddresses

\* what session i does without waiting for a frame, and its stream's end
Proceed(i) ==
    /\ i \in DOMAIN sessions
    /\ CrawlConnect(i) \/ Connect(i) \/ SendVersion(i) \/ StreamEnd(i)

FairSpec ==
    /\ Spec
    /\ WF_vars(MainStep)
    /\ \A i \in 1..Cardinality(V4Hosts) : WF_vars(Proceed(i))

\* ---------------------------------------------------------------- claims
Min(a, b) == IF a < b THEN a ELSE b
IsV4(S) == \A a \in S : a.fam = "V4"
Exited == main_pc \in {"exit_ok", "exit_err"}
SomeRunning == \E i \in DOMAIN sessions : Running(sessions[i])

\* C1: the run prints only distinct members of all_addresses, never more than
\* address_limit of them, and exactly min(address_limit, |all_addresses|).
C1_OutputCount ==
    main_pc = "exit_ok" =>
        /\ Range(printed) \subseteq all_addresses
        /\ Cardinality(Range(printed)) = Len(printed)
        /\ Len(printed) <= address_limit
        /\ Len(printed) = Min(address_limit, Cardinality(all_addresses))

\* the seed returned three addresses and address_limit is 2: two are printed
C1_Witness ==
    /\ main_pc = "exit_ok"
    /\ last_round.n = 0
    /\ Cardinality(all_addresses) = 3
    /\ address_limit = 2
    /\ Len(printed) = 2

\* C2 (as claimed): no address, the seed's included, has more than one
\* session started against it.
C2_AtMostOneSession == \A a \in DOMAIN attempts : attempts[a] <= 1

\* C3: the crawl terminates: the run exits, and once the seed session has
\* returned Ok the loop exits and the output is printed.
C3_Terminates ==
    /\ <>Exited
    /\ (main_pc = "loop") ~> (main_pc = "exit_ok")

\* the run ended after two merged rounds
C3_Witness == main_pc = "exit_ok" /\ last_round.n = 2

\* C4: a failing session of a round contributes nothing and aborts nothing:
\* after the round all_addresses holds every address the round's successful
\* sessions returned, and nothing else was added.
C4_FaultTolerance ==
    (last_round.n > 0 /\ last_round.failed # {}) =>
        /\ last_round.returned \subseteq all_addresses
        /\ all_addresses \subseteq last_round.before \cup last_round.returned
        /\ main_pc # "exit_err"

\* a round with a failed session and a successful one that found a new address
C4_Witness ==
    /\ main_pc = "loop"
    /\ last_round.failed # {}
    /\ last_round.returned \ last_round.before # {}
    /\ last_round.returned \subseteq all_addresses

\* C5: the run fails only out of the seed session, before any round, and
\* a session ends in Err only in a connect or in a send of Version, Verack
\* or GetAddr; a round that has returned is merged and the loop goes on.
C5_OnlySeedFails ==
    /\ [](main_pc = "exit_err" =>
              /\ last_round = NoRound
              /\ \A a \in DOMAIN attempts :
                     attempts[a] = IF a = remote_address THEN 1 ELSE 0)
    /\ [][(main_pc # "exit_err" /\ main_pc' = "exit_err") =>
              /\ main_pc = "seed"
              /\ sessions[1].addr = remote_address
              /\ sessions[1].outcome = "Err"]_vars
    /\ [][\A i \in DOMAIN sessions \cap DOMAIN sessions' :
              (Running(sessions[i]) /\ sessions'[i].outcome = "Err") =>
                  "GetAddr" \notin Range(sessions[i].wire)]_vars
    /\ [][(main_pc = "join" /\ main_pc' # "join") => main_pc' = "loop"]_vars

\* a session of a round failed and the run completed
C5_Witness ==
    /\ main_pc = "exit_ok"
    /\ last_round.failed # {}
    /\ printed # <<>>

\* C6 (as claimed): a session whose peer never sent Version (verack_sent is
\* still false) and whose stream ends (it returns what it holds) returns Ok
\* with the empty set.
C6_NoVersionGivesEmpty ==
    [][\A i \in DOMAIN sessions \cap DOMAIN sessions' :
           (/\ sessions[i].pc = "receive"
            /\ ~sessions[i].verack_sent
            /\ sessions'[i].pc = "returned"
            /\ sessions'[i].outcome = "Ok"
            /\ sessions'[i].result = sessions[i].peer_addresses)
               => sessions'[i].result = {}]_vars

\* C7: with address_limit = 0 the seed session still connects and sends
\* Version before it returns, no round is started, and nothing is printed.
C7_ZeroLimit ==
    /\ [](address_limit = 0 =>
              /\ main_pc # "join"
              /\ last_round = NoRound
              /\ \A a \in DOMAIN attempts :
                     attempts[a] = IF a = remote_address THEN 1 ELSE 0
              /\ main_pc = "exit_ok" => printed = <<>>)
    /\ [][(/\ address_limit = 0
            /\ main_pc = "seed"
            /\ main_pc' = "seed"
            /\ Running(sessions[1])
            /\ sessions'[1].outcome = "Ok") =>
               /\ Len(sessions[1].wire) >= 2
               /\ sessions[1].wire[1] = "connect"
               /\ sessions[1].wire[2] = "Version"]_vars

\* address_limit = 0, the seed session collected addresses (so it had
\* connected and sent Version), and nothing was printed
C7_Witness ==
    /\ address_limit = 0
    /\ main_pc = "exit_ok"
    /\ all_addresses # {}
    /\ printed = <<>>

\* C8: while a session of the round is in flight, main launches no session
\* and updates neither all_addresses nor addresses_to_crawl; a returned
\* session stays as it returned.
C8_Barrier ==
    [][SomeRunning =>
           /\ all_addresses' = all_addresses
           /\ addresses_to_crawl' = addresses_to_crawl
           /\ last_round' = last_round
           /\ main_pc' = main_pc
           /\ Len(sessions') = Len(sessions)
           /\ \A i \in DOMAIN sessions :
                  /\ sessions'[i].addr = sessions[i].addr
                  /\ ~Running(sessions[i]) => sessions'[i] = sessions[i]]_vars

\* the second round has fully returned, after the first one was merged
C8_Witness ==
    /\ main_pc = "join"
    /\ last_round.n = 1
    /\ AllReturned(sessions)

\* C9: after a round, all_addresses and the set of queued addresses depend
\* only on the state before the round and the results returned, whatever
\* the completion order; a session's step changes neither.
C9_OrderIndependent ==
    /\ [](last_round.n > 0 =>
              /\ all_addresses = last_round.before \cup last_round.returned
              /\ main_pc = "loop" =>
                     Range(addresses_to_crawl) =
                         last_round.returned \ last_round.before)
    /\ [][sessions' # sessions /\ main_pc' = main_pc =>
              /\ all_addresses' = all_addresses
              /\ addresses_to_crawl' = addresses_to_crawl]_vars

\* a round of two sessions that completed in the reverse of spawn order
C9_Witness ==
    /\ main_pc = "loop"
    /\ last_round.reordered
    /\ Cardinality(last_round.batch) = 2
    /\ Cardinality(last_round.returned \ last_round.before) = 1

\* C10: what a session collects and returns, all_addresses, the queue and
\* the output hold IPv4 endpoints only.
C10_IPv4Only ==
    /\ \A i \in DOMAIN sessions :
           IsV4(sessions[i].peer_addresses) /\ IsV4(sessions[i].result)
    /\ IsV4(all_addresses)
    /\ IsV4(Range(addresses_to_crawl))
    /\ IsV4(Range(printed))

\* a task returned two addresses out of the Addr messages it read
C10_Witness ==
    /\ main_pc = "join"
    /\ \E i \in DOMAIN sessions :
           /\ sessions[i].outcome = "Ok"
           /\ Cardinality(sessions[i].result) = 2

RECURSIVE OpenConnections(_)
OpenConnections(ss) ==
    IF ss = <<>> THEN 0 ELSE Connections(Head(ss)) + OpenConnections(Tail(ss))

InFlight(ss) == {i \in DOMAIN ss : Running(ss[i])}

\* C11 (as claimed): every session holds at most one connection, and the
\* connections open at any time are no more than the sessions in flight,
\* which are no more than the batch.
C11_OneConnectionPerSession ==
    /\ \A i \in DOMAIN sessions : Connections(sessions[i]) <= 1
    /\ OpenConnections(sessions) <= Cardinality(InFlight(sessions))
    /\ Cardinality(InFlight(sessions)) <= Len(sessions)

\* C12 (as claimed): every Version message sent, by the seed session or by
\* a session of a round, carries the configured user_agent, zero services
\* and zero start_height.
C12_VersionCarriesUserAgent ==
    \A i \in DOMAIN sessions :
        "Version" \in Range(sessions[i].wire) =>
            /\ version_message(sessions[i]).user_agent = user_agent
            /\ version_message(sessions[i]).services = 0
            /\ version_message(sessions[i]).start_height = 0

\* where a session is about to call connect(), and where it goes on to
AtConnect(s) == s.pc \in {"crawl_address", "connect"}
AfterConnect(s) == IF s.pc = "crawl_address" THEN "connect" ELSE "send_version"

\* C13: connect makes one attempt: accepted in time it returns the stream
\* and the caller goes on; refused or timed out it returns an error, which
\* ends the session without a second attempt.
C13_ConnectOnce ==
    /\ [](\A i \in DOMAIN sessions :
              AtConnect(sessions[i]) =>
                  LET s == sessions[i]
                      ok == connect(s, AfterConnect(s), "accepted")
                      refused == connect(s, AfterConnect(s), "refused")
                      timed_out == connect(s, AfterConnect(s), "timed_out")
                  IN  /\ Running(ok) /\ ok.pc = AfterConnect(s)
                      /\ Connections(ok) = Connections(s) + 1
                      /\ ~Running(refused) /\ refused.outcome = "Err"
                      /\ refused.error = "Connection failed"
                      /\ ~Running(timed_out) /\ timed_out.outcome = "Err"
                      /\ timed_out.error = "Connection timed out")
    /\ [][\A i \in DOMAIN sessions \cap DOMAIN sessions' :
              (AtConnect(sessions[i]) /\ sessions'[i] # sessions[i]) =>
                  \/ /\ sessions'[i].pc = AfterConnect(sessions[i])
                     /\ Connections(sessions'[i]) = Connections(sessions[i]) + 1
                     /\ Sent(sessions'[i]) = Sent(sessions[i])
                  \/ /\ sessions'[i].outcome = "Err"
                     /\ sessions'[i].result = {}
                     /\ sessions'[i].error \in
                            {"Connection failed", "Connection timed out"}
                  \/ sessions'[i].outcome = "JoinError"]_vars

\* in one round a connect failed and ended its task while another task's
\* first connect was accepted
C13_Witness ==
    /\ main_pc = "join"
    /\ \E i, j \in DOMAIN sessions :
           /\ sessions[i].error \in {"Connection timed out", "Connection failed"}
           /\ Running(sessions[j])
           /\ Connections(sessions[j]) = 1

IsPrefix(p, q) == Len(p) <= Len(q) /\ \A k \in DOMAIN p : p[k] = q[k]

\* a frame of every kind; of Addr, the payloads of no entry, of one entry and
\* of all entries
ProbeFrames == {f \in Frames : Len(f.addrs) \in {0, 1, Len(EntrySeq)}}

\* C14: a session sends Version, then Verack, then GetAddr, each at most
\* once; Verack and GetAddr go out together on the peer's first Version and
\* on nothing else: a repeated Version, a Verack, an Addr or a corrupt frame
\* triggers no send.
C14_SendOrder ==
    /\ [](\A i \in DOMAIN sessions :
              LET s == sessions[i] IN
              /\ Sent(s) \in {<<>>, <<"Version">>, <<"Version", "Verack", "GetAddr">>}
              /\ s.verack_sent <=> "Verack" \in Range(s.wire)
              /\ s.getaddr_sent <=> "GetAddr" \in Range(s.wire)
              /\ s.pc = "receive" =>
                     \A f \in ProbeFrames : \A t \in OnFrame(s, f) :
                         Running(t) =>
                             IF f.kind = "Version" /\ ~s.verack_sent
                                 THEN Sent(t) = <<"Version", "Verack", "GetAddr">>
                                 ELSE Sent(t) = Sent(s))
    /\ [][main_pc' = main_pc =>
              \A i \in DOMAIN sessions :
                  \/ sessions'[i].wire = sessions[i].wire
                  \/ ~Running(sessions'[i])
                  \/ /\ sessions[i].pc # "receive"
                     /\ IsPrefix(sessions[i].wire, sessions'[i].wire)
                     /\ Len(sessions'[i].wire) = Len(sessions[i].wire) + 1
                  \/ /\ sessions[i].pc = "receive"
                     /\ ~sessions[i].verack_sent
                     /\ sessions'[i].wire =
                            sessions[i].wire \o <<"Verack", "GetAddr">>]_vars

\* a session that has sent Version, Verack and GetAddr, in that order, and
\* holds addresses an Addr message gave it
C14_Witness ==
    \E i \in DOMAIN sessions :
        /\ sessions[i].pc = "receive"
        /\ Sent(sessions[i]) = <<"Version", "Verack", "GetAddr">>
        /\ sessions[i].peer_addresses # {}

\* C15 (as claimed): while a session has not sent GetAddr, an Addr message
\* adds nothing to what it has collected and does not end it: its collection
\* is unchanged by every step that leaves it waiting for the peer's Version,
\* and if it returns Ok it returns just what it held (its stream ended).
C15_AddrOnlyAfterGetAddr ==
    [][\A i \in DOMAIN sessions \cap DOMAIN sessions' :
           (/\ main_pc' = main_pc
            /\ sessions[i].pc = "receive"
            /\ ~sessions[i].getaddr_sent) =>
               /\ (Running(sessions'[i]) /\ ~sessions'[i].getaddr_sent) =>
                      sessions'[i].peer_addresses = sessions[i].peer_addresses
               /\ sessions'[i].outcome = "Ok" =>
                      sessions'[i].result = sessions[i].peer_addresses]_vars

\* C16: a session that is still reading holds fewer addresses than its cap
\* (address_limit for the seed session); the Addr message that brings its
\* collection to the cap ends it at once, and so does the end of the stream;
\* either way it returns Ok with exactly what it has collected.
C16_CapOrStreamEnd ==
    /\ [](\A i \in DOMAIN sessions :
              LET s == sessions[i] IN
              /\ (main_pc = "seed" /\ Running(s)) => s.address_limit = address_limit
              /\ Running(s) =>
                     \/ s.peer_addresses = {}
                     \/ Cardinality(s.peer_addresses) < s.address_limit
              /\ s.pc = "receive" =>
                     /\ OnStreamEnd(s).outcome = "Ok"
                     /\ OnStreamEnd(s).result = s.peer_addresses
                     /\ LET c == InsertAddresses(s.peer_addresses, EntrySeq)
                            t == OnAddr(s, EntrySeq)
                        IN  IF Cardinality(c) >= s.address_limit
                                THEN ~Running(t) /\ t.outcome = "Ok" /\ t.result = c
                                ELSE Running(t) /\ t.peer_addresses = c)
    /\ [][\A i \in DOMAIN sessions \cap DOMAIN sessions' :
              (Running(sessions[i]) /\ sessions'[i].outcome = "Ok") =>
                  /\ sessions[i].pc = "receive"
                  /\ sessions[i].peer_addresses \subseteq sessions'[i].result
                  /\ \/ sessions'[i].result = sessions[i].peer_addresses
                     \/ Cardinality(sessions'[i].result) >=
                            sessions[i].address_limit]_vars

\* the seed session ended on the Addr message that took it from under its
\* cap of 2 to over it
C16_Witness ==
    /\ main_pc = "seed"
    /\ address_limit = 2
    /\ sessions[1].outcome = "Ok"
    /\ Cardinality(sessions[1].result) = 3

C18_VisitedGrows ==
    /\ [](/\ Range(addresses_to_crawl) \subseteq all_addresses
          /\ last_round.n > 0 => last_round.returned \subseteq all_addresses)
    /\ [][all_addresses \subseteq all_addresses']_vars
    /\ [][(main_pc \in {"seed", "join"} /\ main_pc' = "loop") =>
              \A i \in Succeeded(sessions) :
                  sessions[i].result \subseteq all_addresses']_vars

\* the second round was merged: it found an address that was new and is
\* now both visited and queued, next to what was visited before
C18_Witness ==
    /\ main_pc = "loop"
    /\ last_round.n = 2
    /\ last_round.before # {}
    /\ last_round.returned \ last_round.before # {}
    /\ last_round.before \subseteq all_addresses
    /\ addresses_to_crawl # <<>>

IsInjective(q) == \A j, k \in DOMAIN q : q[j] = q[k] => j = k

\* C19: a round starts only while |all_addresses| < address_limit and the
\* queue is not empty; starting it empties the queue and spawns one task per
\* queued address, in queue order; joining it queues exactly the addresses
\* the round's tasks returned that all_addresses did not hold before the
\* merge, each once, and adds all of them to all_addresses.
C19_RoundShape ==
    /\ [](/\ IsInjective(addresses_to_crawl)
          /\ main_pc = "join" => addresses_to_crawl = <<>> /\ sessions # <<>>)
    /\ [][(main_pc = "loop" /\ main_pc' = "join") =>
              /\ Cardinality(all_addresses) < address_limit
              /\ addresses_to_crawl # <<>>
              /\ addresses_to_crawl' = <<>>
              /\ all_addresses' = all_addresses
              /\ Len(sessions') = Len(addresses_to_crawl)
              /\ \A k \in DOMAIN sessions' :
                     /\ sessions'[k].addr = addresses_to_crawl[k]
                     /\ sessions'[k].pc = "crawl_address"]_vars
    /\ [][(main_pc = "join" /\ main_pc' = "loop") =>
              LET returned == UNION {sessions[i].result : i \in Succeeded(sessions)}
              IN  /\ Range(addresses_to_crawl') = returned \ all_addresses
                  /\ IsInjective(addresses_to_crawl')
                  /\ all_addresses' = all_addresses \cup returned]_vars

\* a round started under address_limit was merged and left all_addresses
\* over it, with the two addresses it found queued
C19_Witness ==
    /\ main_pc = "loop"
    /\ last_round.n = 1
    /\ Cardinality(last_round.before) < address_limit
    /\ Cardinality(all_addresses) > address_limit
    /\ Range(addresses_to_crawl) = last_round.returned \ last_round.before
    /\ Len(addresses_to_crawl) = 2

SendErrors ==
    {"Failed to send version message", "Failed to send verack message",
     "Failed to send getaddr message"}

\* C20: a send of Version, Verack or GetAddr that fails ends the session
\* with Err and no addresses, whatever it had collected; a task's failure
\* counts as an empty set in the merge of its round, the seed session's
\* failure makes the run fail.
C20_SendFailure ==
    /\ [](\A i \in DOMAIN sessions :
              LET s == sessions[i] IN
              /\ s.error \in SendErrors =>
                     /\ ~Running(s) /\ s.outcome = "Err"
                     /\ s.result = {} /\ TaskOutput(s) = {}
                     /\ main_pc = "seed" => RunFails(main_pc, sessions)
              /\ s.pc = "send_version" =>
                     \E t \in SendVersionStep(s) :
                         t.error = "Failed to send version message"
              /\ (s.pc = "receive" /\ ~s.verack_sent) =>
                     \E t, u \in OnVersion(s) :
                         /\ t.error = "Failed to send verack message"
                         /\ u.error = "Failed to send getaddr message")
    /\ [][\A i \in DOMAIN sessions \cap DOMAIN sessions' :
              (Running(sessions[i]) /\ sessions'[i].error \in SendErrors) =>
                  /\ sessions[i].pc \in {"send_version", "receive"}
                  /\ sessions'[i].outcome = "Err"
                  /\ sessions'[i].result = {}]_vars
    /\ [][(/\ main_pc = "seed"
            /\ sessions[1].error \in SendErrors
            /\ main_pc' # main_pc) => main_pc' = "exit_err"]_vars
    /\ [][(main_pc = "join" /\ main_pc' = "loop") =>
              all_addresses' =
                  all_addresses \cup
                      UNION {sessions[i].result :
                                i \in {j \in DOMAIN sessions :
                                           sessions[j].error \notin SendErrors}}]_vars

\* in one round a task failed sending GetAddr while another returned
\* addresses
C20_Witness ==
    /\ main_pc = "join"
    /\ \E i, j \in DOMAIN sessions :
           /\ sessions[i].error = "Failed to send getaddr message"
           /\ sessions[j].outcome = "Ok"
           /\ sessions[j].result # {}

====
